---- MODULE Spec2Model ----
(***************************************************************************)
(* Model of the point-processing task server (src/server.py) and of the    *)
(* point algorithms it executes (src/points.py, src/distance.py).          *)
(*                                                                         *)
(* A point is a tuple of integers (<<x, y>> when well formed), a point set *)
(* a sequence of points.  A JSON object is a record; a key that is absent  *)
(* from the object is absent from the record's DOMAIN.  Where a point is   *)
(* expected, Python's None is the empty tuple.                             *)
(***************************************************************************)
EXTENDS Integers, Sequences, FiniteSets, TLC

\* ------------------------------------------------------------------ bounds
\* Number of clients that may connect during one run of the server.
NumClients == 2
\* Number of messages that may wait unread in one connection's buffer.
MaxPending == 2
\* Number of requests the server counts as processed during one run.
MaxRequests == 2
\* Largest coordinate of a point of the point sets the algorithms are
\* applied to on their own (coordinates range over 0..MaxCoord).
MaxCoord == 1
\* Largest number of points of these point sets.
MaxPoints == 3

\* ------------------------------------------------------- python primitives
None == <<>>

\* dict.get(key, default)
Get(d, key, default) == IF key \in DOMAIN d THEN d[key] ELSE default

\* The result of a call: a returned value, or a raised exception.
Return(v) == [raised |-> "none", value |-> v]
Raise(e) == [raised |-> e]
NoException == "none"

\* Mutant: the scan of min() replaces its candidate on an equal key too, so
\* that the last minimal element wins.
KeyLessOrEqual(a, b) ==
    \/ a = b
    \/ \E i \in 1..Len(a) :
          /\ a[i] < b[i]
          /\ \A j \in 1..(i - 1) : a[j] = b[j]

\* The order of two keys of min(): a key is a tuple of numbers (a single
\* number is a tuple of one), and tuples compare lexicographically.
KeyLess(a, b) ==
    \E i \in 1..Len(a) :
        /\ a[i] < b[i]
        /\ \A j \in 1..(i - 1) : a[j] = b[j]

\* min(seq, key=...), keys[i] being the key of seq[i]: the scan keeps the
\* first element whose key is minimal.
PyMin(seq, keys) ==
    LET best[i \in 1..Len(seq)] ==
            IF i = 1 THEN 1
            ELSE IF KeyLess(keys[i], keys[best[i - 1]])
                 THEN i ELSE best[i - 1]
    IN  seq[best[Len(seq)]]

\* ---------------------------------------------------------- src/distance.py
\* The radicand of calc_dist.  math.sqrt is strictly increasing and exact on
\* the small integer radicands of the model, so two distances compare (and
\* tie) exactly as their radicands do.
SqDist(p1, p2) ==
    (p2[1] - p1[1]) * (p2[1] - p1[1]) + (p2[2] - p1[2]) * (p2[2] - p1[2])

\* math.sqrt on a radicand that is a perfect square.
Sqrt(n) == CHOOSE r \in 0..n : r * r = n

calc_dist(p1, p2) == Sqrt(SqDist(p1, p2))

\* x1, y1 = p unpacks only a pair.
Unpacks(p) == Len(p) = 2

\* Mutant: the target itself stays among the candidates.
other_points_with_target(target, points) == points

\* [p for p in points if p != target]
other_points(target, points) == SelectSeq(points, LAMBDA p : p # target)

\* find_closest: None when there is no point of another value.
find_closest(target, points) ==
    IF Len(points) <= 1 THEN None
    ELSE IF other_points(target, points) = <<>> THEN None
    ELSE PyMin(other_points(target, points),
               [i \in 1..Len(other_points(target, points)) |->
                    <<SqDist(target, other_points(target, points)[i])>>])

\* find_closest raises ValueError when calc_dist unpacks a point that is not
\* a pair.
find_closest_raises(target, points) ==
    /\ Len(points) > 1
    /\ other_points(target, points) # <<>>
    /\ \/ ~Unpacks(target)
       \/ \E i \in 1..Len(points) :
              points[i] # target /\ ~Unpacks(points[i])

\* ------------------------------------------------------------ src/points.py
add_two_points(p1, p2) == <<p1[1] + p2[1], p1[2] + p2[2]>>

\* p[0], p[1] index a point that has at least two coordinates.
Indexable(p) == Len(p) >= 2

\* Mutant: a point without a closest point is left out of the result.
process_all_points_skips(points) ==
    LET kept == SelectSeq([i \in 1..Len(points) |-> i],
                          LAMBDA i : find_closest(points[i], points) # None)
    IN  [k \in 1..Len(kept) |->
            add_two_points(points[kept[k]],
                           find_closest(points[kept[k]], points))]

process_all_points(points) ==
    [i \in 1..Len(points) |->
        IF find_closest(points[i], points) # None
        THEN add_two_points(points[i], find_closest(points[i], points))
        ELSE points[i]]

\* Mutant: the sequence is not closed into a cycle, the last point is
\* combined with itself.
process_sequential_no_wrap(points) ==
    IF points = <<>> THEN <<>>
    ELSE [i \in 1..Len(points) |->
            add_two_points(points[i],
                           points[IF i = Len(points) THEN i ELSE i + 1])]

process_sequential(points) ==
    IF points = <<>> THEN <<>>
    ELSE [i \in 1..Len(points) |->
            add_two_points(points[i], points[(i % Len(points)) + 1])]

\* key=lambda p: p[0] + p[1]
KeySum(p) == <<p[1] + p[2]>>
\* Mutant: the key of the minimum-x method is x alone.
KeyLexWithoutY(p) == <<p[1]>>
\* key=lambda p: (p[0], p[1])
KeyLex(p) == <<p[1], p[2]>>
\* key=lambda p: p[0]
KeyX(p) == <<p[1]>>

special_point(points, use_sum) ==
    IF use_sum
    THEN PyMin(points, [i \in 1..Len(points) |-> KeySum(points[i])])
    ELSE PyMin(points, [i \in 1..Len(points) |-> KeyLex(points[i])])

process_with_min_point(points, use_sum) ==
    IF points = <<>> THEN <<>>
    ELSE [i \in 1..Len(points) |->
            add_two_points(points[i], special_point(points, use_sum))]

KnownMethods == {"original", "sequential", "min_sum", "min_x"}

\* Mutant: the minimum-point methods lack their guard for an empty point
\* set, so that min() of an empty sequence raises ValueError.
process_points_raises_on_empty(points, method) ==
    CASE method = "original" ->
            IF \E i \in 1..Len(points) : find_closest_raises(points[i], points)
            THEN "ValueError" ELSE NoException
      [] method = "sequential" ->
            IF \E i \in 1..Len(points) : ~Indexable(points[i])
            THEN "IndexError" ELSE NoException
      [] method \in {"min_sum", "min_x"} ->
            IF points = <<>> THEN "ValueError"
            ELSE IF \E i \in 1..Len(points) : ~Indexable(points[i])
            THEN "IndexError" ELSE NoException
      [] OTHER -> "ValueError"

\* The exception process_points raises on (points, method), or NoException.
process_points_raises(points, method) ==
    CASE method = "original" ->
            IF \E i \in 1..Len(points) : find_closest_raises(points[i], points)
            THEN "ValueError" ELSE NoException
      [] method \in {"sequential", "min_sum", "min_x"} ->
            IF \E i \in 1..Len(points) : ~Indexable(points[i])
            THEN "IndexError" ELSE NoException
      [] OTHER -> "ValueError"

process_points(points, method) ==
    IF process_points_raises(points, method) # NoException
    THEN Raise(process_points_raises(points, method))
    ELSE CASE method = "original" -> Return(process_all_points(points))
           [] method = "sequential" -> Return(process_sequential(points))
           [] method = "min_sum" ->
                Return(process_with_min_point(points, TRUE))
           [] method = "min_x" ->
                Return(process_with_min_point(points, FALSE))


\* --------------------------------------------------------- src/server.py
\* request_data.get('action') of an object without the key, as line 138
\* formats it.
NoAction == "None"

\* The classes an `except PointsProcessorException` clause catches: the
\* classes of the repository's exceptions module.  The built-in ValueError,
\* IndexError, TypeError, AttributeError and OSError are not among them.
PointsProcessorException ==
    {"PointsProcessorException", "InvalidInputFormatException",
     "InvalidNumberException", "EmptyPointsListException",
     "InvalidMethodException", "InvalidMenuChoiceException"}

\* extra_info of a successful process response (lines 91-98).
extra_info(points, method) ==
    CASE method = "min_sum" ->
            [type |-> "min_sum",
             point |-> IF points # <<>>
                       THEN PyMin(points,
                                  [i \in 1..Len(points) |-> KeySum(points[i])])
                       ELSE None]
      [] method = "min_x" ->
            [type |-> "min_x",
             point |-> IF points # <<>>
                       THEN PyMin(points,
                                  [i \in 1..Len(points) |-> KeyX(points[i])])
                       ELSE None]
      [] OTHER -> [k \in {} |-> None]

\* The fixed inputs of the test action.
test_points == <<<<0, 0>>, <<2, 0>>, <<5, 5>>>>
methods_test_points == <<<<1, 1>>, <<4, 5>>, <<2, 3>>>>

\* Mutant: every action, ping included, starts with a simulated delay.
ProgramDelaysAll(request_data) ==
    CASE Get(request_data, "action", NoAction) = "process" ->
            <<"delay", "process_points">>
      [] OTHER -> <<"delay">>

\* Mutant: the test action sleeps once, before its first computation only.
ProgramTestSleepsOnce(request_data) ==
    CASE Get(request_data, "action", NoAction) = "process" ->
            <<"delay", "process_points">>
      [] Get(request_data, "action", NoAction) = "test" ->
            <<"delay", "calc_dist", "find_closest", "add_two_points",
              "process_points", "process_points", "process_points",
              "process_points">>
      [] OTHER -> <<>>

\* The statements handle_request executes for a request, in order: "delay"
\* is a call of emulate_long_calculation, the others are the computations.
Program(request_data) ==
    CASE Get(request_data, "action", NoAction) = "process" ->
            <<"delay", "process_points">>
      [] Get(request_data, "action", NoAction) = "test" ->
            <<"delay", "calc_dist", "find_closest", "add_two_points",
              "delay", "process_points", "delay", "process_points",
              "delay", "process_points", "delay", "process_points">>
      [] OTHER -> <<>>

\* Mutant: the method field is not read, every point set is combined
\* sequentially.
handle_request_always_sequential(request_data) ==
    LET action == Get(request_data, "action", NoAction)
        points == Get(request_data, "points", <<>>)
        method == "sequential"
        result == process_points(points, method)
    IN  CASE action = "process" ->
                IF result.raised = NoException
                THEN Return([status |-> "success",
                             result |-> result.value,
                             extra_info |-> extra_info(points, method)])
                ELSE IF result.raised \in PointsProcessorException
                THEN Return([status |-> "error",
                             message |-> <<result.raised>>])
                ELSE Raise(result.raised)
          [] action = "test" ->
                Return([status |-> "success",
                        distance |-> calc_dist(<<0, 0>>, <<3, 4>>),
                        closest |-> find_closest(<<0, 0>>, test_points),
                        sum |-> add_two_points(<<1, 2>>, <<3, 4>>),
                        methods |->
                            [m \in KnownMethods |->
                                process_points(methods_test_points, m).value]])
          [] action = "ping" ->
                Return([status |-> "success", message |-> <<"pong">>])
          [] OTHER ->
                Return([status |-> "error",
                        message |-> <<"Unknown action: ", action>>])

\* What handle_request returns or raises for a decoded request.
handle_request(request_data) ==
    LET action == Get(request_data, "action", NoAction)
        points == Get(request_data, "points", <<>>)
        method == Get(request_data, "method", "original")
        result == process_points(points, method)
    IN  CASE action = "process" ->
                IF result.raised = NoException
                THEN Return([status |-> "success",
                             result |-> result.value,
                             extra_info |-> extra_info(points, method)])
                ELSE IF result.raised \in PointsProcessorException
                THEN Return([status |-> "error",
                             message |-> <<result.raised>>])
                ELSE Raise(result.raised)
          [] action = "test" ->
                Return([status |-> "success",
                        distance |-> calc_dist(<<0, 0>>, <<3, 4>>),
                        closest |-> find_closest(<<0, 0>>, test_points),
                        sum |-> add_two_points(<<1, 2>>, <<3, 4>>),
                        methods |->
                            [m \in KnownMethods |->
                                process_points(methods_test_points, m).value]])
          [] action = "ping" ->
                Return([status |-> "success", message |-> <<"pong">>])
          [] OTHER ->
                Return([status |-> "error",
                        message |-> <<"Unknown action: ", action>>])

\* The replies of the connection handler's own except clauses.  The message
\* texts are the source's, in English: a message is the tuple of its fixed
\* text and of the value formatted into it.
BadJsonResponse == [status |-> "error", message |-> <<"Invalid JSON">>]
ExceptionResponse(e) == [status |-> "error", message |-> <<"Error: ", e>>]


\* ------------------------------------------------------------ the messages
\* The bodies a client may send.  kind "object" is a JSON object (obj is the
\* decoded dict), "array" a JSON document that is not an object, "invalid"
\* bytes that json.loads rejects.
EmptyPoints == <<>>
SamplePoints == <<<<1, 1>>, <<4, 5>>, <<2, 3>>>>
\* A point set whose only point has a single coordinate.
MalformedPoints == <<<<1>>>>

Requests ==
    {[action |-> a] : a \in {"ping", "test", "exit", "status"}}
    \cup {[k \in {} |-> None]}
    \cup {[action |-> "process", points |-> EmptyPoints, method |-> m] :
            m \in KnownMethods}
    \cup {[action |-> "process", points |-> SamplePoints,
           method |-> "sequential"],
          [action |-> "process", points |-> SamplePoints,
           method |-> "bogus"],
          [action |-> "process", points |-> MalformedPoints,
           method |-> "min_x"],
          [action |-> "process"]}

NoRequest == [action |-> "<unset>"]
NoResponse == [status |-> "<unset>"]

Messages ==
    {[kind |-> "object", obj |-> r] : r \in Requests}
    \cup {[kind |-> "array", obj |-> NoRequest],
          [kind |-> "invalid", obj |-> NoRequest]}

\* json.loads(data.decode('utf-8')) followed by request.get('action') of
\* line 192: the exception raised, or NoException.
decode_raises(body) ==
    CASE body.kind = "invalid" -> "JSONDecodeError"
      [] body.kind = "array" -> "AttributeError"
      [] OTHER -> NoException

\* ---------------------------------------------------------------- the state
Clients == 1..NumClients
NoClient == 0

VARIABLES
    srvPc,              \* where the server thread is in run()
    running,            \* self.running
    server_socket,      \* "new", "listening" or "closed"
    exit_status,        \* the argument of sys.exit in run(), or -1
    process_exit,       \* the exit status of the process, -1 while it runs
    client_counter,     \* self.client_counter
    processed_requests, \* self.processed_requests
    cur,                \* the client whose connection is being handled
    request,            \* the decoded request of the current message
    response,           \* the response about to be sent
    hstep,              \* statements of Program(request) executed so far
    delays,             \* emulate_long_calculation calls for this request
    exc,                \* the exception the handler is dealing with
    conn,               \* per client: "idle", "backlog", "open", "closed"
    peer,               \* per client: its end is "up", "closed" or "reset"
    pending,            \* per client: messages waiting in the connection
    unanswered,         \* messages read from the connection, not yet replied
    backlog,            \* the listen queue, in connection order
    client_name,        \* per client: the number run() gave it, 0 if none
    end_cause           \* why the last handler left its while True loop

\* The menu program (src/main.py) is a process of its own.
VARIABLES
    mpc,                \* where main() of the menu program is
    created,            \* the state coroutines created and primed so far
    entered,            \* the points the manual-input state has read
    last_input,         \* what the last line read from the keyboard was
    stopped,            \* self.stopped of the automaton
    context,            \* self.context, Unset until __init__ assigns it
    current_state,      \* self.current_state, Unset until it is assigned
    fsm_error           \* the exception that ended the construction

menuVars == <<mpc, created, entered, last_input, stopped, context,
              current_state, fsm_error>>

vars == <<srvPc, running, server_socket, exit_status, process_exit,
          client_counter, processed_requests, cur, request, response, hstep,
          delays, exc, unanswered, conn, peer, pending, backlog, client_name,
          end_cause, menuVars>>

loopVars == <<running, server_socket, exit_status, process_exit>>
counters == <<client_counter, processed_requests>>
handlerVars == <<request, response, hstep, delays, exc, unanswered>>
netVars == <<conn, peer, pending, backlog>>
serverVars == <<srvPc, loopVars, counters, cur, handlerVars, client_name,
                end_cause>>

\* An attribute of the automaton that __init__ has not assigned yet.
Unassigned == "<unassigned>"
\* self.context is a tuple of one dictionary once it is assigned, the empty
\* tuple before.
NoContext == <<>>

\* The dictionary __init__ assigns to self.context (main.py lines 83-89).
InitialContext ==
    <<[points |-> <<>>, method |-> None, error |-> None, choice |-> None,
       awaiting_input |-> FALSE]>>

\* The state coroutines, in the order in which __init__ creates them
\* (main.py lines 66-77).
StateOrder ==
    <<"start", "main_menu", "test_functions", "input_method", "manual_input",
      "random_input", "choose_method", "process_points_state",
      "compare_methods", "logging_menu", "exit_state", "error_state">>

\* The menu program before main() of main.py has created its automaton.
InitMenu ==
    /\ mpc = "main"
    /\ created = <<>>
    /\ entered = <<>>
    /\ last_input = "none"
    /\ stopped = FALSE
    /\ context = NoContext
    /\ current_state = Unassigned
    /\ fsm_error = NoException

Init ==
    /\ srvPc = "bind"
    /\ running = TRUE
    /\ server_socket = "new"
    /\ exit_status = -1
    /\ process_exit = -1
    /\ client_counter = 0
    /\ processed_requests = 0
    /\ cur = NoClient
    /\ request = NoRequest
    /\ response = NoResponse
    /\ hstep = 0
    /\ delays = 0
    /\ exc = NoException
    /\ unanswered = 0
    /\ conn = [c \in Clients |-> "idle"]
    /\ peer = [c \in Clients |-> "up"]
    /\ pending = [c \in Clients |-> 0]
    /\ backlog = <<>>
    /\ client_name = [c \in Clients |-> 0]
    /\ end_cause = "none"
    /\ InitMenu

\* ------------------------------------------------------------- the clients
\* Clients are interchangeable, so they are numbered in the order in which
\* they connect.  A connection waits in the listen queue until accept
\* returns it.
Connect(c) ==
    /\ conn[c] = "idle"
    /\ \A d \in Clients : d < c => conn[d] # "idle"
    /\ server_socket = "listening"
    /\ conn' = [conn EXCEPT ![c] = "backlog"]
    /\ backlog' = Append(backlog, c)
    /\ UNCHANGED <<serverVars, peer, pending>>
    /\ UNCHANGED menuVars

\* A client writes one message; it may do so before it is accepted.  The body
\* of the message is drawn when the server's recv returns it.  One recv
\* returns one message: the protocol has no framing of its own and relies on
\* each send being read by one recv of at most BUFFER_SIZE bytes.
ClientSend(c) ==
    /\ conn[c] \in {"backlog", "open"}
    /\ peer[c] = "up"
    /\ pending[c] < MaxPending
    /\ pending' = [pending EXCEPT ![c] = @ + 1]
    /\ UNCHANGED <<serverVars, conn, peer, backlog>>
    /\ UNCHANGED menuVars

\* A client closes its end in an orderly way (the server reads EOF).
ClientClose(c) ==
    /\ conn[c] \in {"backlog", "open"}
    /\ peer[c] = "up"
    /\ peer' = [peer EXCEPT ![c] = "closed"]
    /\ UNCHANGED <<serverVars, conn, pending, backlog>>
    /\ UNCHANGED menuVars

\* A client aborts its connection (the server's recv and send fail).
ClientReset(c) ==
    /\ conn[c] \in {"backlog", "open"}
    /\ peer[c] \in {"up", "closed"}
    /\ peer' = [peer EXCEPT ![c] = "reset"]
    /\ UNCHANGED <<serverVars, conn, pending, backlog>>
    /\ UNCHANGED menuVars

\* KeyboardInterrupt in main(): server.stop() (lines 219-222, 231-232).
Stop ==
    /\ running
    /\ srvPc # "stopped"
    /\ running' = FALSE
    /\ UNCHANGED <<srvPc, server_socket, exit_status, process_exit,
                   counters, cur, handlerVars, netVars, client_name,
                   end_cause>>
    /\ UNCHANGED menuVars

\* -------------------------------------------------------------- run()
InHandler == srvPc \in {"recv", "handle", "send", "except", "close"}

\* bind and listen succeed (lines 146-152).
BindOk ==
    /\ srvPc = "bind"
    /\ server_socket' = "listening"
    /\ srvPc' = "while"
    /\ UNCHANGED <<running, exit_status, process_exit, counters, cur,
                   handlerVars, netVars, client_name, end_cause>>
    /\ UNCHANGED menuVars

\* bind raises: the outer except logs and calls sys.exit(1) (lines 172-174).
BindFail ==
    /\ srvPc = "bind"
    /\ exit_status' = 1
    /\ srvPc' = "run_finally"
    /\ UNCHANGED <<running, server_socket, process_exit, counters, cur,
                   handlerVars, netVars, client_name, end_cause>>
    /\ UNCHANGED menuVars

\* Mutant: the loop test does not look at the flag (while True).
LoopTestIgnoresFlag(flag) == "accept"

\* Where the test of while self.running takes run(): into the loop body or
\* out of the try block, to the finally clause (line 154).
LoopTest(flag) == IF flag THEN "accept" ELSE "run_finally"

\* while self.running (line 154).
WhileRunning ==
    /\ srvPc = "while"
    /\ srvPc' = LoopTest(running)
    /\ UNCHANGED <<loopVars, counters, cur, handlerVars, netVars,
                   client_name, end_cause>>
    /\ UNCHANGED menuVars

\* Mutant: run() counts a connection only once it has closed another.
AcceptCountsLate ==
    /\ srvPc = "accept"
    /\ backlog # <<>>
    /\ LET c == Head(backlog)
       IN  /\ cur' = c
           /\ conn' = [conn EXCEPT ![c] = "open"]
           /\ client_name' = [client_name EXCEPT ![c] = client_counter + 1]
    /\ backlog' = Tail(backlog)
    /\ client_counter' =
          IF \E c \in Clients : conn[c] = "closed"
          THEN client_counter + 1 ELSE client_counter
    /\ unanswered' = 0
    /\ srvPc' = "recv"
    /\ UNCHANGED <<loopVars, processed_requests, request, response, hstep,
                   delays, exc, peer, pending, end_cause>>
    /\ UNCHANGED menuVars

\* accept returns the oldest pending connection; run() numbers the client
\* and calls handle_client_connection in the same thread (lines 157-164).
Accept ==
    /\ srvPc = "accept"
    /\ backlog # <<>>
    /\ LET c == Head(backlog)
       IN  /\ cur' = c
           /\ conn' = [conn EXCEPT ![c] = "open"]
           /\ client_name' = [client_name EXCEPT ![c] = client_counter + 1]
    /\ backlog' = Tail(backlog)
    /\ client_counter' = client_counter + 1
    /\ unanswered' = 0
    /\ srvPc' = "recv"
    /\ UNCHANGED <<loopVars, processed_requests, request, response, hstep,
                   delays, exc, peer, pending, end_cause>>
    /\ UNCHANGED menuVars

\* accept times out after 0.5 s with nothing pending (lines 166-167).
AcceptTimeout ==
    /\ srvPc = "accept"
    /\ backlog = <<>>
    /\ srvPc' = "while"
    /\ UNCHANGED <<loopVars, counters, cur, handlerVars, netVars,
                   client_name, end_cause>>
    /\ UNCHANGED menuVars

\* accept raises something else than a timeout: the inner except Exception
\* logs it and the loop goes on (lines 168-170).
AcceptError ==
    /\ srvPc = "accept"
    /\ srvPc' = "while"
    /\ UNCHANGED <<loopVars, counters, cur, handlerVars, netVars,
                   client_name, end_cause>>
    /\ UNCHANGED menuVars

\* finally of run(): the listening socket is closed (lines 175-177).
RunFinally ==
    /\ srvPc = "run_finally"
    /\ server_socket' = "closed"
    /\ srvPc' = "stopped"
    /\ UNCHANGED <<running, exit_status, process_exit, counters, cur,
                   handlerVars, netVars, client_name, end_cause>>
    /\ UNCHANGED menuVars

\* Mutant: the status given to sys.exit in run() becomes the status of the
\* process.
ProcessStatusOfThread(thread_status) ==
    IF thread_status = -1 THEN 0 ELSE thread_status

\* The exit status of the process.  run() is the body of a threading.Thread
\* that main() starts and joins: the SystemExit that sys.exit(1) raises in
\* run() ends that thread only, join returns normally in the main thread,
\* main() returns and the interpreter exits with status 0.
ProcessStatus(thread_status) == 0

\* main() after server.join(): the server thread has ended and the process
\* exits (lines 224-233).  After a KeyboardInterrupt main() has returned
\* already, and the interpreter waits for the non-daemon server thread.
ProcessExit ==
    /\ srvPc = "stopped"
    /\ process_exit = -1
    /\ process_exit' = ProcessStatus(exit_status)
    /\ UNCHANGED <<srvPc, running, server_socket, exit_status, counters,
                   cur, handlerVars, netVars, client_name, end_cause>>
    /\ UNCHANGED menuVars

\* ------------------------------------------- handle_client_connection()
\* Mutant: the loop is also left on an action the dispatcher does not know.
BreaksLoopOnUnknownAction(request_data) ==
    Get(request_data, "action", NoAction) \notin {"ping", "test", "process"}

\* if request.get('action') == 'exit': break (lines 201-202).
BreaksLoop(request_data) == Get(request_data, "action", NoAction) = "exit"

\* Mutant: an except clause leaves the loop after its reply.
AfterErrorReplyCloses == "close"

\* Where the handler goes on after an except clause of lines 204-209 has
\* sent its reply: the while True loop continues.
AfterErrorReply == "recv"

\* Mutant: run() waits for the next connection without testing the flag.
AfterHandlerSkipsTest(cause) == "accept"

\* Mutant: a handler that ended on an error takes the server loop down.
AfterHandlerFaultStops(cause) ==
    IF cause = "error" THEN "run_finally" ELSE "while"

\* Where run() goes on once handle_client_connection has returned: the
\* handler lets no exception out, so the while loop continues.
AfterHandler(cause) == "while"

\* Mutant: the handler returns without closing the client socket.
ClosedSocketLeftOpen == "open"

\* What the finally clause leaves of the connection (line 216).
ClosedSocket == "closed"

\* The handler's locals at the top of an iteration of the while True loop:
\* what the previous iteration left in them is never read again.
NextIteration ==
    /\ request' = NoRequest
    /\ response' = NoResponse
    /\ exc' = NoException
    /\ hstep' = 0
    /\ delays' = 0

\* Mutant: a decode failure is swallowed and the loop reads on.
OnDecodeErrorIgnored == "recv"

\* Where a failure of json.loads or of request.get takes the handler: to the
\* except clauses of lines 204-209.
OnDecodeError == "except"

\* The reply of the except clause that catches exception e (lines 204-209).
ExceptReply(e) ==
    IF e = "JSONDecodeError" THEN BadJsonResponse ELSE ExceptionResponse(e)

\* recv returns one message (lines 186-192).  The message is decoded; a body
\* that is no JSON, or no JSON object, raises inside the inner try.
RecvMessage ==
    /\ srvPc = "recv"
    /\ peer[cur] # "reset"
    /\ pending[cur] > 0
    /\ processed_requests < MaxRequests
    /\ pending' = [pending EXCEPT ![cur] = @ - 1]
    /\ unanswered' = unanswered + 1
    /\ hstep' = 0
    /\ delays' = 0
    /\ \E body \in Messages :
          IF decode_raises(body) = NoException
          THEN /\ request' = body.obj
               /\ response' = NoResponse
               /\ exc' = NoException
               /\ srvPc' = "handle"
          ELSE /\ request' = NoRequest
               /\ exc' = decode_raises(body)
               /\ response' = ExceptReply(decode_raises(body))
               /\ srvPc' = OnDecodeError
    /\ UNCHANGED <<loopVars, counters, cur, conn, peer, backlog,
                   client_name, end_cause>>
    /\ UNCHANGED menuVars

\* Leaving the while True loop for the finally clause.
LeaveLoop(cause) ==
    /\ end_cause' = cause
    /\ srvPc' = "close"

\* recv returns b'': the peer closed and everything was read (lines 187-188).
RecvEof ==
    /\ srvPc = "recv"
    /\ peer[cur] = "closed"
    /\ pending[cur] = 0
    /\ LeaveLoop("eof")
    /\ UNCHANGED <<loopVars, counters, cur, handlerVars, netVars,
                   client_name>>
    /\ UNCHANGED menuVars

\* Nothing arrives for 30 s: socket.timeout (lines 182, 211-212).
RecvTimeout ==
    /\ srvPc = "recv"
    /\ peer[cur] = "up"
    /\ pending[cur] = 0
    /\ LeaveLoop("timeout")
    /\ UNCHANGED <<loopVars, counters, cur, handlerVars, netVars,
                   client_name>>
    /\ UNCHANGED menuVars

\* recv raises on a connection the peer has reset (lines 213-214).
RecvError ==
    /\ srvPc = "recv"
    /\ peer[cur] = "reset"
    /\ LeaveLoop("error")
    /\ UNCHANGED <<loopVars, counters, cur, handlerVars, netVars,
                   client_name>>
    /\ UNCHANGED menuVars

\* ---------------------------------------------------- handle_request()
NextStatement == Program(request)[hstep + 1]

\* emulate_long_calculation: the server thread sleeps (lines 65-70).
EmulateLongCalculation ==
    /\ srvPc = "handle"
    /\ hstep < Len(Program(request))
    /\ NextStatement = "delay"
    /\ hstep' = hstep + 1
    /\ delays' = delays + 1
    /\ UNCHANGED <<srvPc, loopVars, counters, cur, request, response, exc,
                   unanswered, netVars, client_name, end_cause>>
    /\ UNCHANGED menuVars

\* Mutant: the computation reverses the request's point list in place.
ComputeReversesPoints ==
    /\ srvPc = "handle"
    /\ hstep < Len(Program(request))
    /\ NextStatement # "delay"
    /\ request' =
          IF "points" \in DOMAIN request
          THEN [request EXCEPT !.points =
                   [i \in 1..Len(@) |-> @[Len(@) + 1 - i]]]
          ELSE request
    /\ IF /\ NextStatement = "process_points"
          /\ handle_request(request).raised # NoException
       THEN /\ exc' = handle_request(request).raised
            /\ response' = ExceptReply(handle_request(request).raised)
            /\ srvPc' = "except"
            /\ hstep' = hstep
       ELSE /\ hstep' = hstep + 1
            /\ UNCHANGED <<srvPc, response, exc>>
    /\ UNCHANGED <<loopVars, counters, cur, delays, unanswered,
                   netVars, client_name, end_cause>>
    /\ UNCHANGED menuVars

\* One computation of handle_request.  An exception that handle_request does
\* not catch reaches the except Exception clause of the connection handler
\* (lines 207-209).
Compute ==
    /\ srvPc = "handle"
    /\ hstep < Len(Program(request))
    /\ NextStatement # "delay"
    /\ IF /\ NextStatement = "process_points"
          /\ handle_request(request).raised # NoException
       THEN /\ exc' = handle_request(request).raised
            /\ response' = ExceptReply(handle_request(request).raised)
            /\ srvPc' = "except"
            /\ hstep' = hstep
       ELSE /\ hstep' = hstep + 1
            /\ UNCHANGED <<srvPc, response, exc>>
    /\ UNCHANGED <<loopVars, counters, cur, request, delays, unanswered,
                   netVars, client_name, end_cause>>
    /\ UNCHANGED menuVars

\* Mutant: the response carries the number of requests processed so far.
HandleRequestReturnNumbered ==
    /\ srvPc = "handle"
    /\ hstep = Len(Program(request))
    /\ response' = [k \in DOMAIN handle_request(request).value \cup {"number"}
                        |-> IF k = "number" THEN <<processed_requests>>
                            ELSE handle_request(request).value[k]]
    /\ processed_requests' = processed_requests + 1
    /\ srvPc' = "send"
    /\ UNCHANGED <<loopVars, client_counter, cur, request, hstep, delays,
                   exc, unanswered, netVars, client_name, end_cause>>
    /\ UNCHANGED menuVars

\* handle_request returns its response; the handler counts the request
\* (lines 195-196).
HandleRequestReturn ==
    /\ srvPc = "handle"
    /\ hstep = Len(Program(request))
    /\ response' = handle_request(request).value
    /\ processed_requests' = processed_requests + 1
    /\ srvPc' = "send"
    /\ UNCHANGED <<loopVars, client_counter, cur, request, hstep, delays,
                   exc, unanswered, netVars, client_name, end_cause>>
    /\ UNCHANGED menuVars

\* ------------------------------------------------------------- the replies
\* client_socket.send of the response succeeds (lines 199-202).
SendResponse ==
    /\ srvPc = "send"
    /\ peer[cur] # "reset"
    /\ unanswered' = unanswered - 1
    /\ IF BreaksLoop(request)
       THEN /\ LeaveLoop("exit")
            /\ UNCHANGED <<request, response, hstep, delays, exc>>
       ELSE /\ srvPc' = "recv"
            /\ NextIteration
            /\ UNCHANGED end_cause
    /\ UNCHANGED <<loopVars, counters, cur, netVars, client_name>>
    /\ UNCHANGED menuVars

\* client_socket.send raises: the peer is gone.  The except Exception clause
\* (lines 207-209) builds an error reply.
SendResponseFails ==
    /\ srvPc = "send"
    /\ peer[cur] # "up"
    /\ peer' = [peer EXCEPT ![cur] = "reset"]
    /\ exc' = "OSError"
    /\ response' = ExceptReply("OSError")
    /\ srvPc' = "except"
    /\ UNCHANGED <<loopVars, counters, cur, request, hstep, delays,
                   unanswered, conn, pending, backlog, client_name,
                   end_cause>>
    /\ UNCHANGED menuVars

\* The send of an except clause succeeds (lines 206, 209).
SendErrorResponse ==
    /\ srvPc = "except"
    /\ peer[cur] # "reset"
    /\ unanswered' = unanswered - 1
    /\ srvPc' = AfterErrorReply
    /\ NextIteration
    /\ UNCHANGED <<loopVars, counters, cur, netVars, client_name,
                   end_cause>>
    /\ UNCHANGED menuVars

\* The send of an except clause raises: the outer except Exception logs it
\* (lines 213-214).
SendErrorResponseFails ==
    /\ srvPc = "except"
    /\ peer[cur] # "up"
    /\ peer' = [peer EXCEPT ![cur] = "reset"]
    /\ exc' = "OSError"
    /\ LeaveLoop("error")
    /\ UNCHANGED <<loopVars, counters, cur, request, response, hstep,
                   delays, unanswered, conn, pending, backlog, client_name>>
    /\ UNCHANGED menuVars

\* finally: client_socket.close(); handle_client_connection returns to run()
\* (lines 215-217).  The connection is gone: what was left unread is
\* dropped, and what the client does with its end reaches nobody.
CloseClient ==
    /\ srvPc = "close"
    /\ conn' = [conn EXCEPT ![cur] = ClosedSocket]
    /\ pending' = [pending EXCEPT ![cur] = 0]
    /\ peer' = [peer EXCEPT ![cur] = "closed"]
    /\ cur' = NoClient
    /\ NextIteration
    /\ unanswered' = 0
    /\ srvPc' = AfterHandler(end_cause)
    /\ UNCHANGED <<loopVars, counters, backlog, client_name, end_cause>>
    /\ UNCHANGED menuVars

\* --------------------------------------------------------------- the system
Next ==
    \/ BindOk
    \/ BindFail
    \/ WhileRunning
    \/ Accept
    \/ AcceptTimeout
    \/ AcceptError
    \/ RunFinally
    \/ RecvMessage
    \/ RecvEof
    \/ RecvTimeout
    \/ RecvError
    \/ EmulateLongCalculation
    \/ Compute
    \/ HandleRequestReturn
    \/ SendResponse
    \/ SendResponseFails
    \/ SendErrorResponse
    \/ SendErrorResponseFails
    \/ CloseClient
    \/ ProcessExit
    \/ Stop
    \/ \E c \in Clients : Connect(c)
    \/ \E c \in Clients : ClientSend(c)
    \/ \E c \in Clients : ClientClose(c)
    \/ \E c \in Clients : ClientReset(c)

Spec == Init /\ [][Next]_vars

\* The steps of the server's own threads.  The server thread is never
\* suspended for good: accept returns or times out after 0.5 s, recv returns
\* or times out after 30 s, a sleep ends, and every other statement runs to
\* its end.  What the clients and the operator do is up to them.
ServerThread ==
    \/ BindOk
    \/ BindFail
    \/ WhileRunning
    \/ Accept
    \/ AcceptTimeout
    \/ AcceptError
    \/ RunFinally
    \/ RecvMessage
    \/ RecvEof
    \/ RecvTimeout
    \/ RecvError
    \/ EmulateLongCalculation
    \/ Compute
    \/ HandleRequestReturn
    \/ SendResponse
    \/ SendResponseFails
    \/ SendErrorResponse
    \/ SendErrorResponseFails
    \/ CloseClient
    \/ ProcessExit

SpecLive == Spec /\ WF_vars(ServerThread)

\* ------------------------------------------- the dispatcher on its own
\* The point sets the algorithms are applied to: every sequence of at most
\* MaxPoints points with coordinates in 0..MaxCoord, and the point sets of
\* the documentation's examples.
Coordinates == 0..MaxCoord
PointSets ==
    UNION {[1..n -> Coordinates \X Coordinates] : n \in 0..MaxPoints}
        \cup {SamplePoints, test_points}

\* The process requests for these point sets.
ProcessRequests ==
    {[action |-> "process", points |-> P, method |-> m] :
        P \in PointSets, m \in KnownMethods}

\* The server has accepted its first connection and decoded a process
\* request read from it (lines 186-192): handle_request is about to be
\* called on it (line 195).
InitDispatch ==
    /\ srvPc = "handle"
    /\ running = TRUE
    /\ server_socket = "listening"
    /\ exit_status = -1
    /\ process_exit = -1
    /\ client_counter = 1
    /\ processed_requests = 0
    /\ cur = 1
    /\ request \in ProcessRequests
    /\ response = NoResponse
    /\ hstep = 0
    /\ delays = 0
    /\ exc = NoException
    /\ unanswered = 1
    /\ conn = [c \in Clients |-> IF c = 1 THEN "open" ELSE "idle"]
    /\ peer = [c \in Clients |-> "up"]
    /\ pending = [c \in Clients |-> 0]
    /\ backlog = <<>>
    /\ client_name = [c \in Clients |-> IF c = 1 THEN 1 ELSE 0]
    /\ end_cause = "none"
    /\ InitMenu

\* handle_request runs on the request, up to its return.
NextDispatch ==
    \/ EmulateLongCalculation
    \/ Compute
    \/ HandleRequestReturn

SpecDispatch == InitDispatch /\ [][NextDispatch]_vars

\* The process requests that leave out the method, the points, or both.
DefaultedRequests ==
    {[action |-> "process", points |-> P] : P \in PointSets}
        \cup {[action |-> "process", method |-> m] : m \in KnownMethods}
        \cup {[action |-> "process"]}

\* As InitDispatch, the request decoded being one of DefaultedRequests.
InitDefaults ==
    /\ srvPc = "handle"
    /\ running = TRUE
    /\ server_socket = "listening"
    /\ exit_status = -1
    /\ process_exit = -1
    /\ client_counter = 1
    /\ processed_requests = 0
    /\ cur = 1
    /\ request \in DefaultedRequests
    /\ response = NoResponse
    /\ hstep = 0
    /\ delays = 0
    /\ exc = NoException
    /\ unanswered = 1
    /\ conn = [c \in Clients |-> IF c = 1 THEN "open" ELSE "idle"]
    /\ peer = [c \in Clients |-> "up"]
    /\ pending = [c \in Clients |-> 0]
    /\ backlog = <<>>
    /\ client_name = [c \in Clients |-> IF c = 1 THEN 1 ELSE 0]
    /\ end_cause = "none"
    /\ InitMenu

SpecDefaults == InitDefaults /\ [][NextDispatch]_vars

\* ------------------------------------------------- src/main.py: main()
\* main() calls CoroutineFSM(): __init__ sets up the logger and assigns
\* self.stopped and self.result (main.py lines 61-63, 690).
NewFSM ==
    /\ mpc = "main"
    /\ mpc' = "init"
    /\ stopped' = FALSE
    /\ UNCHANGED <<created, entered, last_input, context, current_state,
                   fsm_error, serverVars, netVars>>

\* The decorator prime runs a state coroutine up to its first yield (lines
\* 21-27).  Before its first yield the coroutine of manual input reads the
\* points from the keyboard (lines 362-372).
PrimeReadsInput(name) == name = "manual_input"

\* Before their first yield these coroutines read self.context (lines 460,
\* 497-498).
PrimeReadsContext(name) == name \in {"choose_method", "process_points_state"}

\* The next statement of __init__ (lines 66-91): the next state coroutine is
\* created and primed, and when all are, current_state and context are
\* assigned and __init__ returns to main(), which calls run().  Priming the
\* exit state runs self.stopped = True (line 670).
CreateState ==
    /\ mpc = "init"
    /\ IF Len(created) = Len(StateOrder)
       THEN /\ current_state' = "start"
            /\ context' = InitialContext
            /\ mpc' = "run"
            /\ UNCHANGED <<created, stopped, fsm_error>>
       ELSE LET name == StateOrder[Len(created) + 1]
            IN  CASE PrimeReadsInput(name) ->
                        /\ mpc' = "manual_input"
                        /\ UNCHANGED <<created, stopped, context,
                                       current_state, fsm_error>>
                  [] PrimeReadsContext(name) /\ context = NoContext ->
                        /\ mpc' = "raised"
                        /\ fsm_error' = "AttributeError"
                        /\ UNCHANGED <<created, stopped, context,
                                       current_state>>
                  [] OTHER ->
                        /\ created' = Append(created, name)
                        /\ stopped' = (stopped \/ name = "exit_state")
                        /\ UNCHANGED <<mpc, context, current_state,
                                       fsm_error>>
    /\ UNCHANGED <<entered, last_input, serverVars, netVars>>

\* input() returns a line x,y of two numbers: the point is appended (lines
\* 372-393).
InputPoint ==
    /\ mpc = "manual_input"
    /\ Len(entered) < MaxPoints
    /\ \E p \in Coordinates \X Coordinates : entered' = Append(entered, p)
    /\ last_input' = "point"
    /\ UNCHANGED <<mpc, created, stopped, context, current_state, fsm_error,
                   serverVars, netVars>>

\* input() returns a line without a comma or with something that is no
\* number, or raises EOFError at the end of the input: the inner except
\* clauses print the error and the loop reads again (lines 395-400).
InputRejected ==
    /\ mpc = "manual_input"
    /\ \E kind \in {"no comma", "no number", "EOFError"} :
          last_input' = kind
    /\ UNCHANGED <<mpc, created, entered, stopped, context, current_state,
                   fsm_error, serverVars, netVars>>

\* input() returns an empty line: the loop ends, and line 402 stores the
\* points in self.context.  While __init__ has not assigned self.context
\* this raises AttributeError; the except clause of lines 415-420 then
\* reads self.error_state (line 418), which raises AttributeError again
\* while the error state is not created, and stores into self.context (line
\* 419), which raises it otherwise; either one leaves the coroutine, prime,
\* __init__ and main().
InputEmpty ==
    /\ mpc = "manual_input"
    /\ last_input' = "empty"
    /\ IF context = NoContext
       THEN IF \E i \in 1..Len(created) : created[i] = "error_state"
            THEN /\ current_state' = "error_state"
                 /\ mpc' = "raised"
                 /\ fsm_error' = "AttributeError"
                 /\ UNCHANGED <<created, context>>
            ELSE /\ mpc' = "raised"
                 /\ fsm_error' = "AttributeError"
                 /\ UNCHANGED <<created, context, current_state>>
       ELSE /\ context' = <<[context[1] EXCEPT !.points = entered]>>
            /\ current_state' =
                  IF entered # <<>> THEN "choose_method" ELSE "main_menu"
            /\ created' = Append(created, "manual_input")
            /\ mpc' = "init"
            /\ UNCHANGED fsm_error
    /\ UNCHANGED <<entered, stopped, serverVars, netVars>>

\* The user interrupts input(): KeyboardInterrupt is no Exception, no except
\* clause of the coroutine catches it, and __init__ is not inside the try of
\* run().
InputInterrupt ==
    /\ mpc = "manual_input"
    /\ mpc' = "raised"
    /\ fsm_error' = "KeyboardInterrupt"
    /\ last_input' = "interrupt"
    /\ UNCHANGED <<created, entered, stopped, context, current_state,
                   serverVars, netVars>>

NextMenu ==
    \/ NewFSM
    \/ CreateState
    \/ InputPoint
    \/ InputRejected
    \/ InputEmpty
    \/ InputInterrupt

SpecMenu == Init /\ [][NextMenu]_vars

\* The menu program runs in the main thread alone, and the keyboard delivers
\* a line, its end or an interrupt to every input().
SpecMenuLive == SpecMenu /\ WF_vars(NextMenu)

\* ================================================================ claims
\* What the current request asks for.
Action == Get(request, "action", NoAction)
ReplyWritten == unanswered' = unanswered - 1
StaysOpen == srvPc' = "recv" /\ cur' = cur /\ conn'[cur] = "open"

\* C1: at most one connection is served at a time.  Whenever the server's
\* recv returns a message of a connection b, b is the connection being
\* handled, no other connection is open, and every other connection that was
\* accepted has been closed by its handler.
MessageRead(b) == pending'[b] = pending[b] - 1 /\ conn'[b] = "open"
ServedAlone(b) ==
    /\ cur = b
    /\ srvPc = "recv"
    /\ conn[b] = "open"
    /\ \A a \in Clients \ {b} :
          /\ conn[a] # "open"
          /\ client_name[a] # 0 => conn[a] = "closed"
C1_OneConnectionAtATime ==
    [][\A b \in Clients : MessageRead(b) => ServedAlone(b)]_vars
\* The second client's request is being handled, the first connection closed.
C1_Witness ==
    /\ srvPc = "handle"
    /\ cur = 2
    /\ client_name[2] = 2
    /\ conn[1] = "closed"

\* C2: within a connection the handler reads a message, dispatches it and
\* sends its reply before it reads again: at every read no message is
\* unanswered, between a read and its reply exactly one is, and the response
\* about to be sent is the one of the request just read.
C2_OneReplyPerMessage ==
    /\ unanswered \in {0, 1}
    /\ srvPc = "recv" => unanswered = 0
    /\ srvPc \in {"handle", "send", "except"} => unanswered = 1
    /\ srvPc = "handle" => response = NoResponse
    /\ srvPc = "send" =>
          /\ hstep = Len(Program(request))
          /\ response = handle_request(request).value
\* The second request of one connection is about to be answered.
C2_Witness ==
    /\ srvPc = "send"
    /\ client_counter = 1
    /\ processed_requests = 2

\* C3 (as claimed): a request with action exit is answered with a response of
\* status success, and the handler closes the connection once the response
\* is sent.
C3_ExitAcknowledged ==
    [][(srvPc = "send" /\ Action = "exit") =>
          /\ response.status = "success"
          /\ ReplyWritten => srvPc' = "close"]_vars

\* C4 (as claimed): after the error reply to a message that is no JSON the
\* connection is closed.
C4_DecodeFailureCloses ==
    [][(srvPc = "except" /\ exc = "JSONDecodeError" /\ ReplyWritten) =>
          srvPc' = "close"]_vars
\* C4 (amended): a message that is no JSON is answered with the error
\* response of the JSONDecodeError clause, and once that reply is sent the
\* handler goes back to reading the same connection, which stays open; the
\* connection ends there only when sending the reply fails.
C4_DecodeFailureKeepsOpen ==
    [][(srvPc = "except" /\ exc = "JSONDecodeError") =>
          /\ response = BadJsonResponse
          /\ ReplyWritten => StaysOpen
          /\ srvPc' = "close" => peer'[cur] = "reset" /\ end_cause' = "error"]_vars
\* The handler is about to answer a message that is no JSON, on a connection
\* whose peer is there to read the answer.
C4_Witness ==
    /\ srvPc = "except"
    /\ exc = "JSONDecodeError"
    /\ peer[cur] = "up"

\* A process request with an empty point set and one of the four methods.
EmptyProcess ==
    /\ Action = "process"
    /\ Get(request, "points", <<>>) = <<>>
    /\ Get(request, "method", "original") \in KnownMethods
\* C5 (as claimed): a process request with an empty point set is answered
\* with status error.
C5_EmptyPointsRejected ==
    (srvPc = "send" /\ EmptyProcess) => response.status = "error"
\* C5 (amended): a process request with an empty point set is answered, for
\* each of the four methods, with status success and an empty result (for
\* min_sum and min_x with None as the reference point); no exception reaches
\* the connection handler, and the connection stays open.
C5_EmptyPointsSucceed ==
    [][EmptyProcess =>
          /\ srvPc = "except" => exc = "OSError"
          /\ srvPc = "send" =>
                /\ response.status = "success"
                /\ response.result = <<>>
                /\ "point" \in DOMAIN response.extra_info =>
                       response.extra_info.point = None
                /\ ReplyWritten => StaysOpen]_vars
\* The success response to an empty min_x request is about to be sent.
C5_Witness ==
    /\ srvPc = "send"
    /\ request = [action |-> "process", points |-> <<>>, method |-> "min_x"]
    /\ response.status = "success"

\* A process request whose method is none of the four.
UnknownMethod ==
    /\ Action = "process"
    /\ Get(request, "method", "original") \notin KnownMethods
\* C6: a process request with an unknown method makes process_points fail
\* and is answered with status error; once the reply is sent the connection
\* is open and the handler reads the next request.
C6_UnknownMethodAnswered ==
    [][UnknownMethod =>
          /\ process_points(Get(request, "points", <<>>),
                            Get(request, "method", "original")).raised
                 # NoException
          /\ srvPc # "send"
          /\ srvPc = "except" =>
                /\ response.status = "error"
                /\ ReplyWritten => StaysOpen]_vars
\* The error reply to an unknown method is about to be sent to a peer that
\* is there.
C6_Witness ==
    /\ srvPc = "except"
    /\ UnknownMethod
    /\ exc = "ValueError"
    /\ peer[cur] = "up"

\* C7 (as claimed): handle_request returns a response for every decoded
\* request and lets no exception out to the connection handler.
C7_DispatcherNeverRaises ==
    srvPc \in {"handle", "send", "except"} /\ request # NoRequest =>
        handle_request(request).raised = NoException

\* C8: a ping is answered with status success and message pong, and no
\* simulated delay runs between reading it and sending the reply.
C8_PingImmediate ==
    Action = "ping" =>
        /\ delays = 0
        /\ srvPc = "send" =>
              response = [status |-> "success", message |-> <<"pong">>]
\* The pong is about to be sent.
C8_Witness ==
    /\ srvPc = "send"
    /\ request = [action |-> "ping"]

\* C9: a request whose action is none of ping, test, process, exit is
\* answered with status error and a message naming the action; once the
\* reply is sent the connection is open and the handler awaits the next
\* message.
C9_UnknownActionAnswered ==
    [][(srvPc = "send" /\ Action \notin {"ping", "test", "process", "exit"}) =>
          /\ response = [status |-> "error",
                         message |-> <<"Unknown action: ", Action>>]
          /\ ReplyWritten => StaysOpen]_vars
\* The reply to the unknown action status is about to be sent.
C9_Witness ==
    /\ srvPc = "send"
    /\ request = [action |-> "status"]
    /\ peer[cur] = "up"

\* C10: no fault of a connection ends the server loop.  When a handler
\* returns, whatever ended it, run() is back at its loop test with the
\* listening socket, the flag and the exit status untouched; and run() leaves
\* its loop only with the flag cleared or on a bind failure, before any
\* connection was accepted.
C10_LoopSurvivesConnection ==
    [][/\ (srvPc = "close" /\ srvPc' # "close") =>
              /\ srvPc' = "while"
              /\ server_socket' = "listening"
              /\ UNCHANGED loopVars
       /\ (srvPc' = "run_finally" /\ srvPc # "run_finally") =>
              \/ srvPc = "while" /\ ~running
              \/ srvPc = "bind" /\ client_counter = 0]_vars
\* A second connection is served after the first one ended on an error.
C10_Witness ==
    /\ srvPc = "handle"
    /\ client_counter = 2
    /\ end_cause = "error"
    /\ running

\* C11: shutdown is cooperative.  Clearing the flag touches nothing of a
\* connection being served, and with the flag cleared the handler goes on
\* until it closes the connection itself; the loop test that finds the flag
\* cleared leaves the loop, and the finally clause then closes the listening
\* socket; and provided every connection handling terminates, a cleared flag
\* leads to the stopped server.
C11_CooperativeShutdown ==
    /\ [][/\ (running /\ ~running') =>
                 UNCHANGED <<srvPc, cur, conn, handlerVars, server_socket>>
          /\ (InHandler /\ ~running) =>
                 \/ InHandler' /\ cur' = cur /\ conn'[cur] = "open"
                 \/ srvPc = "close" /\ conn'[cur] = "closed"
          /\ (srvPc = "while" /\ ~running /\ srvPc' # srvPc) =>
                 srvPc' = "run_finally"
          /\ (srvPc = "run_finally" /\ srvPc' # srvPc) =>
                 srvPc' = "stopped" /\ server_socket' = "closed"]_vars
    /\ ([]<>(~InHandler)) =>
          ((~running) ~> (srvPc = "stopped" /\ server_socket = "closed"))
\* The server has stopped on a cleared flag after it served a connection.
C11_Witness ==
    /\ srvPc = "stopped"
    /\ ~running
    /\ server_socket = "closed"
    /\ exit_status = -1
    /\ client_counter = 1
    /\ processed_requests = 1

\* C12: when bind fails the server accepts no connection, and the process
\* ends with exit status 1.
C12_BindFailureExitsWithOne ==
    exit_status = 1 =>
        /\ client_counter = 0
        /\ srvPc \in {"run_finally", "stopped"}
        /\ process_exit \in {-1, 1}

\* process_points has been called for the current process request: it
\* returned and the success response is about to be sent, or it raised.
Combined == Action = "process" /\ srvPc \in {"send", "except"}
Succeeded ==
    /\ Action = "process"
    /\ srvPc = "send"
    /\ response.status = "success"
\* The sum of two points, coordinate by coordinate.
Plus(p, q) == <<p[1] + q[1], p[2] + q[2]>>

\* C13: the result of a successful process response has the length of the
\* input point set, and its element i is the input's point i, alone or added
\* to a point of the input.
C13_LengthAndIndexKept ==
    Succeeded =>
        /\ Len(response.result) = Len(request.points)
        /\ \A i \in 1..Len(request.points) :
              \/ response.result[i] = request.points[i]
              \/ \E j \in 1..Len(request.points) :
                    response.result[i] =
                        Plus(request.points[i], request.points[j])
\* The result for the three points of the test action, two of which have a
\* closest point.
C13_Witness ==
    /\ Succeeded
    /\ request.points = test_points
    /\ request.method = "original"
    /\ Len(response.result) = 3

\* Point j is the partner of point i in P: it has another value, no point of
\* another value is nearer to point i, and none as near comes before it.
IsPartner(P, i, j) ==
    /\ P[j] # P[i]
    /\ \A k \in 1..Len(P) :
          P[k] # P[i] =>
              /\ SqDist(P[i], P[j]) <= SqDist(P[i], P[k])
              /\ k < j => SqDist(P[i], P[j]) < SqDist(P[i], P[k])

\* C14: with method original, element i of the result is point i plus its
\* partner, the nearest point of another value and the first of these in
\* input order; a point that has no point of another value is left as it is.
C14_OriginalAddsNearest ==
    (Succeeded /\ request.method = "original") =>
        \A i \in 1..Len(request.points) :
            IF \E j \in 1..Len(request.points) :
                   request.points[j] # request.points[i]
            THEN \E j \in 1..Len(request.points) :
                    /\ IsPartner(request.points, i, j)
                    /\ response.result[i] =
                           Plus(request.points[i], request.points[j])
            ELSE response.result[i] = request.points[i]
\* Two points are equally near to the first one, which got the earlier one;
\* the two equal points of another set were left unchanged.
C14_Witness ==
    /\ Succeeded
    /\ request.method = "original"
    /\ \/ /\ request.points = <<<<0, 0>>, <<0, 1>>, <<1, 0>>>>
          /\ response.result[1] = <<0, 1>>
       \/ /\ request.points = <<<<1, 1>>, <<1, 1>>>>
          /\ response.result = request.points

\* p comes before q in the lexicographic order of (x, y).
LexBefore(p, q) == p[1] < q[1] \/ (p[1] = q[1] /\ p[2] < q[2])

\* C15: with method min_x, every element i of the result is point i plus the
\* reference point, the first point in input order that no point precedes in
\* the lexicographic order of (x, y).
C15_MinXAddsLexMinimum ==
    (Succeeded /\ request.method = "min_x" /\ request.points # <<>>) =>
        \E j \in 1..Len(request.points) :
            /\ \A k \in 1..Len(request.points) :
                  /\ ~LexBefore(request.points[k], request.points[j])
                  /\ k < j => LexBefore(request.points[j], request.points[k])
            /\ \A i \in 1..Len(request.points) :
                  response.result[i] =
                      Plus(request.points[i], request.points[j])
\* Two points share the least x; the one with the smaller y was added.
C15_Witness ==
    /\ Succeeded
    /\ request.method = "min_x"
    /\ request.points = <<<<1, 1>>, <<0, 1>>, <<0, 0>>>>
    /\ response.result = <<<<1, 1>>, <<0, 1>>, <<0, 0>>>>

\* C16: the point a successful min_sum or min_x response reports in
\* extra_info.point is the point that was added to every input point.
C16_ReportedPointIsAdded ==
    (Succeeded /\ request.method \in {"min_sum", "min_x"}
               /\ request.points # <<>>) =>
        \A i \in 1..Len(request.points) :
            response.result[i] =
                Plus(request.points[i], response.extra_info.point)

\* C17 as stated: on an empty point set, sequential and original return the
\* empty result, and min_sum and min_x fail.
C17_EmptyInputFailsForMinimum ==
    (Combined /\ request.points = <<>>) =>
        IF request.method \in {"sequential", "original"}
        THEN Succeeded /\ response.result = <<>>
        ELSE ~Succeeded
\* C17: on an empty point set every one of the four methods returns the
\* empty result, and none raises.
C17_EmptyInputEmptyResult ==
    (Combined /\ request.points = <<>>) =>
        /\ Succeeded
        /\ exc = NoException
        /\ response.result = <<>>
\* The minimum-x method has returned the empty result for the empty set.
C17_Witness ==
    /\ Succeeded
    /\ request.points = <<>>
    /\ request.method = "min_x"
    /\ response.result = <<>>

\* C18: with method sequential, element i of the result of n points is
\* point i plus point (i+1) mod n, the last point plus the first.
C18_SequentialAddsNext ==
    (Succeeded /\ request.method = "sequential"
               /\ request.points # <<>>) =>
        LET n == Len(request.points)
        IN  \A i \in 0..(n - 1) :
                response.result[i + 1] =
                    Plus(request.points[i + 1],
                         request.points[((i + 1) % n) + 1])
\* The last of three points was added to the first; a single point was
\* added to itself.
C18_Witness ==
    /\ Succeeded
    /\ request.method = "sequential"
    /\ \/ /\ request.points = <<<<0, 0>>, <<0, 1>>, <<1, 0>>>>
          /\ response.result[3] = <<1, 0>>
       \/ /\ request.points = <<<<1, 0>>>>
          /\ response.result = <<<<2, 0>>>>

\* C19: with method min_sum, every element i of the result is point i plus
\* the reference point, the first point in input order whose x+y is least.
C19_MinSumAddsFirstMinimum ==
    (Succeeded /\ request.method = "min_sum" /\ request.points # <<>>) =>
        \E j \in 1..Len(request.points) :
            /\ \A k \in 1..Len(request.points) :
                  /\ request.points[j][1] + request.points[j][2]
                        <= request.points[k][1] + request.points[k][2]
                  /\ k < j =>
                        request.points[j][1] + request.points[j][2]
                            < request.points[k][1] + request.points[k][2]
            /\ \A i \in 1..Len(request.points) :
                  response.result[i] =
                      Plus(request.points[i], request.points[j])
\* Two points have the least sum; the earlier one was added.
C19_Witness ==
    /\ Succeeded
    /\ request.method = "min_sum"
    /\ request.points = <<<<1, 1>>, <<0, 1>>, <<1, 0>>>>
    /\ response.result = <<<<1, 2>>, <<0, 2>>, <<1, 1>>>>

\* C20: the example of the documentation of process_points holds: the
\* points (1,1), (4,5), (2,3) with method original give (2,3), (7,7), (4,5).
C20_DocumentedExample ==
    (Combined /\ request.points = SamplePoints
              /\ request.method = "original") =>
        /\ Succeeded
        /\ response.result = <<<<2, 3>>, <<7, 7>>, <<4, 5>>>>

\* C21: the result of a successful process response is what process_points
\* returns for the request's own points and method; the points (1,1), (4,5),
\* (2,3) with method sequential give (5,6), (6,8), (3,4).
C21_ResponseCarriesCombine ==
    Succeeded =>
        /\ response.result =
              process_points(request.points, request.method).value
        /\ (request.points = SamplePoints /\ request.method = "sequential")
              => response.result = <<<<5, 6>>, <<6, 8>>, <<3, 4>>>>
\* The response to the sequential example is about to be sent.
C21_Witness ==
    /\ Succeeded
    /\ request.points = SamplePoints
    /\ request.method = "sequential"
    /\ response.result = <<<<5, 6>>, <<6, 8>>, <<3, 4>>>>

\* The statements of the test action that are calls of
\* emulate_long_calculation, counted from 0: the first one, and the one
\* before each of the four process_points calls.
TestDelayPositions == {0, 4, 6, 8, 10}
\* The response of the test action.
TestResponse ==
    [status |-> "success",
     distance |-> 5,
     closest |-> <<2, 0>>,
     sum |-> <<4, 6>>,
     methods |->
        [original |-> <<<<3, 4>>, <<6, 8>>, <<3, 4>>>>,
         sequential |-> <<<<5, 6>>, <<6, 8>>, <<3, 4>>>>,
         min_sum |-> <<<<2, 2>>, <<5, 6>>, <<3, 4>>>>,
         min_x |-> <<<<2, 2>>, <<5, 6>>, <<3, 4>>>>]]

\* C22 as stated: the test action sleeps before each of its seven
\* computations, so that at no moment more computations than sleeps are
\* done, and its response aggregates the documented values.
C22_TestDelaysEverySubStep ==
    Action = "test" =>
        /\ hstep - delays <= delays
        /\ srvPc = "send" => (delays = 7 /\ response = TestResponse)
\* C22: the test action sleeps five times, once before its three elementary
\* computations taken together and once before each of the four
\* process_points calls, and returns one success response with distance 5,
\* closest (2,0), sum (4,6) and the result of each of the four methods.
C22_TestDelaysFiveTimes ==
    Action = "test" =>
        /\ delays = Cardinality({i \in TestDelayPositions : i < hstep})
        /\ srvPc = "send" =>
              (delays = 5 /\ hstep = 12 /\ response = TestResponse)
\* The response of the test action is about to be sent.
C22_Witness ==
    /\ srvPc = "send"
    /\ Action = "test"
    /\ delays = 5
    /\ response.distance = 5

C24_MessagesIndependent ==
    [][srvPc = "handle" =>
          /\ UNCHANGED <<server_socket, exit_status, process_exit,
                         client_counter, client_name, cur, request>>
          /\ conn'[cur] = "open"
          /\ srvPc' = "send" => response' = handle_request(request).value
          /\ processed_requests' \in
                {processed_requests, processed_requests + 1}]_vars
\* The second request of the second connection is answered.
C24_Witness ==
    /\ srvPc = "send"
    /\ client_counter = 2
    /\ processed_requests = 2
    /\ response = handle_request(request).value
    /\ Action = "process"

\* C25 as stated: the counters never decrease, client_counter counts the
\* accepted connections, and every message that is read and gets a reply
\* has been counted in processed_requests when the handler turns to writing
\* that reply.
C25_EveryReplyCounted ==
    [][/\ client_counter' =
             client_counter +
                (IF srvPc = "accept" /\ srvPc' = "recv" THEN 1 ELSE 0)
       /\ processed_requests' >= processed_requests
       /\ (srvPc \in {"recv", "handle"} /\ srvPc' \in {"send", "except"})
             => processed_requests' = processed_requests + 1]_vars
\* C25: the counters never decrease; client_counter goes up by one exactly
\* when a connection is accepted, and processed_requests goes up by one
\* exactly when handle_request returns a response, be it an error response;
\* a message answered by an except clause of the connection handler is not
\* counted.
C25_CountersExact ==
    [][/\ client_counter' =
             client_counter +
                (IF srvPc = "accept" /\ srvPc' = "recv" THEN 1 ELSE 0)
       /\ processed_requests' =
             processed_requests +
                (IF srvPc = "handle" /\ srvPc' = "send" THEN 1 ELSE 0)
       /\ (srvPc \in {"recv", "handle"} /\ srvPc' = "except")
             => processed_requests' = processed_requests]_vars
\* On the second connection a message that is no JSON is about to be
\* answered; only the request of the first connection has been counted.
C25_Witness ==
    /\ srvPc = "except"
    /\ exc = "JSONDecodeError"
    /\ client_counter = 2
    /\ processed_requests = 1

\* C26: whenever the connection handler is not running, no accepted socket
\* is open: every connection that was accepted is closed before run() tests
\* its loop or accepts again, whatever ended the handler; and while the
\* handler runs, the connection it serves is the only open one.
C26_ClientSocketsClosed ==
    /\ end_cause \in {"none", "eof", "exit", "timeout", "error"}
    /\ \A c \in Clients :
          /\ (~InHandler /\ client_name[c] # 0) => conn[c] = "closed"
          /\ ~InHandler => conn[c] # "open"
          /\ (InHandler /\ c # cur) => conn[c] # "open"
\* run() waits for the next connection after a handler that ended on a send
\* or receive error; the connection is closed.
C26_Witness ==
    /\ srvPc = "accept"
    /\ end_cause = "error"
    /\ client_counter = 1
    /\ conn[1] = "closed"

\* C27: with the flag cleared run() never enters accept again, so that at
\* most the accept that was waiting when the flag was cleared returns a
\* connection; once the loop is left nothing is accepted; and the listening
\* socket is closed by the finally clause alone, once, on the way out of
\* run() after a cleared flag as after a bind failure.
C27_AtMostOneMoreAccept ==
    [][/\ (~running /\ srvPc # "accept") => srvPc' # "accept"
       /\ (~running /\ srvPc = "accept" /\ srvPc' = "recv") =>
              client_counter' = client_counter + 1
       /\ srvPc \in {"run_finally", "stopped"} =>
              /\ srvPc' \in {"run_finally", "stopped"}
              /\ UNCHANGED <<client_counter, cur>>
              /\ \A c \in Clients : conn'[c] # "open"
       /\ srvPc = "stopped" => (srvPc' = "stopped" /\ UNCHANGED server_socket)
       /\ server_socket' # server_socket =>
              \/ srvPc = "bind" /\ server_socket' = "listening"
              \/ srvPc = "run_finally" /\ server_socket' = "closed"
       /\ srvPc' = "stopped" => server_socket' = "closed"]_vars
\* The flag is cleared while accept waits after a first connection, and one
\* more connection is pending: accept is about to return it.
C27_Witness ==
    /\ ~running
    /\ srvPc = "accept"
    /\ client_counter = 1
    /\ Len(backlog) = 1
    /\ server_socket = "listening"

\* C28: a process request without a method is answered as with method
\* original, one without points as with the empty point set, and neither is
\* answered with an error.
C28_OmittedFieldsDefault ==
    Action = "process" =>
        /\ srvPc # "except"
        /\ srvPc = "send" =>
              /\ response.status = "success"
              /\ "method" \notin DOMAIN request =>
                    response.result =
                        process_all_points(Get(request, "points", <<>>))
              /\ "points" \notin DOMAIN request => response.result = <<>>
\* A request of two points without a method got the result of method
\* original.
C28_Witness ==
    /\ srvPc = "send"
    /\ request = [action |-> "process",
                  points |-> <<<<0, 0>>, <<1, 1>>>>]
    /\ response.result = <<<<1, 1>>, <<1, 1>>>>

\* C29: constructing the automaton completes: no state coroutine raises
\* while it is primed, and once __init__ has returned all twelve state
\* coroutines exist, the current state is start and the context is the
\* initial one.
C29_ConstructionCompletes ==
    /\ mpc # "raised"
    /\ fsm_error = NoException
    /\ mpc = "run" =>
          /\ Len(created) = Len(StateOrder)
          /\ current_state = "start"
          /\ context = InitialContext

====
